---- MODULE Spec2Model ----
(***************************************************************************)
(* Model of modal/app.py (anki-capture): the process_upload pipeline, the  *)
(* remote functions it calls (transcribe_audio, ocr_image,                 *)
(* generate_breakdown, generate_tts) with their in-function retry loops    *)
(* and their platform-level retries, and the webhook deliveries.           *)
(***************************************************************************)
EXTENDS Integers, Sequences, FiniteSets, TLC

None == "None"

(***************************************************************************)
(* Bounds of the model.                                                    *)
(***************************************************************************)
\* longest text (in characters) a caller or a backend hands to the pipeline
MaxTextLen == 2
\* the call counters stop counting here (above what any job reaches)
MaxCalls == 10

(***************************************************************************)
(* Program constants.                                                      *)
(***************************************************************************)
\* @app.function(retries=2): the platform re-runs a raising function
transcribe_audio_retries == 2
ocr_image_retries == 2
generate_breakdown_retries == 2
generate_tts_retries == 2
\* for attempt in range(3)
DownloadAttempts == 3
BreakdownAttempts == 3
\* len(audio_data) < 100
MinAudioBytes == 100

(***************************************************************************)
(* Language registry.                                                      *)
(***************************************************************************)
LANGUAGE_REGISTRY ==
  [ru |-> [code |-> "ru", name |-> "Russian",
           locale_variants |-> <<"ru", "rus", "russian">>,
           script_range |-> <<1024, 1279>>,
           tts_code |-> "ru-RU", tts_voice_env_var |-> "GCP_TTS_RU_VOICE",
           whisper_names |-> <<"russian", "ru">>],
   ar |-> [code |-> "ar", name |-> "Arabic",
           locale_variants |-> <<"ar", "ara", "arabic">>,
           script_range |-> <<1536, 1791>>,
           tts_code |-> "ar-XA", tts_voice_env_var |-> "GCP_TTS_AR_VOICE",
           whisper_names |-> <<"arabic", "ar">>],
   zh |-> [code |-> "zh", name |-> "Chinese",
           locale_variants |-> <<"zh", "zho", "chi", "chinese">>,
           script_range |-> <<19968, 40959>>,
           tts_code |-> "zh-CN", tts_voice_env_var |-> "GCP_TTS_ZH_VOICE",
           whisper_names |-> <<"chinese", "zh">>],
   es |-> [code |-> "es", name |-> "Spanish",
           locale_variants |-> <<"es", "spa", "spanish">>,
           script_range |-> <<32, 591>>,
           tts_code |-> "es-ES", tts_voice_env_var |-> "GCP_TTS_ES_VOICE",
           whisper_names |-> <<"spanish", "es">>],
   ka |-> [code |-> "ka", name |-> "Georgian",
           locale_variants |-> <<"ka", "kat", "geo", "georgian">>,
           script_range |-> <<4256, 4351>>,
           tts_code |-> "ka-GE", tts_voice_env_var |-> "GCP_TTS_KA_VOICE",
           whisper_names |-> <<"georgian", "ka">>]]

\* iteration order of LANGUAGE_REGISTRY.items() (insertion order of the dict)
RegistryOrder == <<"ru", "ar", "zh", "es", "ka">>

get_supported_languages == {RegistryOrder[i] : i \in DOMAIN RegistryOrder}

\* LANGUAGE_REGISTRY.get(code): the config, or nothing
get_language_config(code) ==
  IF code \in get_supported_languages THEN {LANGUAGE_REGISTRY[code]} ELSE {}

Range(s) == {s[i] : i \in DOMAIN s}

(***************************************************************************)
(* Strings.  A text is a sequence of characters; a name (language code,    *)
(* hint) is an atom with str.lower() given on the names the model uses.    *)
(***************************************************************************)
Chars == {" ", "a"}

\* str.isspace() on the characters of the model
isspace(c) == c \in {" ", "\n"}

Texts == UNION {[1..n -> Chars] : n \in 0..MaxTextLen}

RECURSIVE lstrip(_)
lstrip(t) == IF t # <<>> /\ isspace(Head(t)) THEN lstrip(Tail(t)) ELSE t

RECURSIVE rstrip(_)
rstrip(t) ==
  IF t # <<>> /\ isspace(t[Len(t)]) THEN rstrip(SubSeq(t, 1, Len(t) - 1)) ELSE t

\* mutant: only the leading whitespace is removed
strip_leading_only(t) == lstrip(t)

\* str.strip()
strip(t) == rstrip(lstrip(t))

\* str.lower() on the names of the model
lower(s) ==
  CASE s = "Russian" -> "russian"
    [] s = "RU" -> "ru"
    [] s = "ru-RU" -> "ru-ru"
    [] OTHER -> s

\* Optional values: {} is Python's None, {v} is the value v
Nothing == {}
Some(v) == {v}
the(o) == CHOOSE v \in o : TRUE

\* Python truthiness of a name (None and "" are falsy)
truthy(x) == x # None /\ x # ""

\* a or b, on names
or(a, b) == IF truthy(a) THEN a ELSE b

\* `not extracted_text or not extracted_text.strip()` on an optional text
is_blank(o) == o = Nothing \/ the(o) = <<>> \/ strip(the(o)) = <<>>

(***************************************************************************)
(* Inputs: the jobs process_upload is spawned with, the secrets of the     *)
(* environment, and what the backends can answer.                          *)
(***************************************************************************)
SourceTypes == {"image", "audio", "text", "video"}
LanguageHints == {None, "ru", "Russian", "fr"}
Webhooks == {<<"https://hook.one", "secret-one">>}

\* source_text is read for the text branch only, so the other kinds carry none
Jobs ==
  {[phrase_id |-> "p1", source_type |-> k, file_url |-> f, source_text |-> t,
    language |-> l, webhook_url |-> w[1], webhook_secret |-> w[2], audio_only |-> a] :
     k \in SourceTypes, f \in {None, "https://files/f1"},
     t \in {Nothing} \cup {Some(x) : x \in Texts},
     l \in LanguageHints, w \in Webhooks, a \in BOOLEAN}

JobsRead ==
  {j \in Jobs : j.source_type \in {"audio", "image"} => j.source_text = Nothing}

\* os.environ: which secrets are configured
Envs ==
  {[OPENAI_API_KEY |-> TRUE, GOOGLE_CREDENTIALS_JSON |-> TRUE],
   [OPENAI_API_KEY |-> FALSE, GOOGLE_CREDENTIALS_JSON |-> TRUE],
   [OPENAI_API_KEY |-> TRUE, GOOGLE_CREDENTIALS_JSON |-> FALSE]}

DownloadErrors == {"ConnectTimeout", "404 Not Found"}
WhisperLanguages == {"es", "en"}
LLMErrors == {"RateLimitError"}
JSONErrors == {"Expecting value: line 1 column 1 (char 0)"}
RequiredFields == {"transliteration", "translation", "grammar_notes", "vocab_breakdown"}
AudioSizes == {0, 99, 100}
PostOutcomes == {"2xx", "non2xx", "transport_error"}

\* what ocr_image can return once Vision answered with annotations
OcrResults ==
  {[text |-> t, language |-> l, confidence |-> c] :
     t \in Texts, l \in {None, "ru", "zh"}, c \in {50, 99}}

VARIABLES
  job,                \* the arguments of process_upload
  env,                \* the configured secrets
  pc,                 \* where process_upload (or the remote function it awaits) is
  invocation,         \* how often the platform has re-run the current remote function
  attempt,            \* the loop variable of the current retry loop
  extracted_text, detected_language, confidence, breakdown, audio_b64,
  exc,                \* the exception caught at `except Exception as e`
  ended,              \* the exception process_upload ended with
  posts,              \* the webhook POSTs made, in order
  calls,              \* how often each backend / remote function was entered
  returned,           \* the stages that returned a result to process_upload
  lastErr,            \* the error of the latest failed attempt of a retry loop
  raisedAt,           \* the stage whose failure reached the except clause
  data,               \* the body of the request handed to trigger
  response,           \* what trigger answered
  spawned,            \* the process_upload calls trigger has spawned
  texts,              \* the text_annotations of a Vision response
  target_lang,        \* the target language handed to the OCR filter
  filtered,           \* what filter_target_language_segments returned
  ocr_result,         \* what ocr_image returned (`result` in process_upload)
  segments,           \* the segments handed to reconstruct_with_lines
  filtered_indices,   \* the indices to keep handed to reconstruct_with_lines
  reconstructed,      \* what reconstruct_with_lines returned
  filtered_again,     \* what a second run of the filter on the same input returned
  tts_language,       \* the language generate_tts is called with
  voice_env,          \* the value of the profile's voice variable in os.environ
  voices,             \* what client.list_voices() returned
  voice               \* the VoiceSelectionParams pick_voice returned

tts_vars == <<tts_language, voice_env, voices, voice>>

\* the state of the trigger endpoint, of the OCR functions and of pick_voice
aux == <<data, response, spawned, texts, target_lang, filtered, ocr_result,
         segments, filtered_indices, reconstructed, filtered_again, tts_vars>>

\* aux without ocr_result
aux_rest == <<data, response, spawned, texts, target_lang, filtered, segments,
              filtered_indices, reconstructed, filtered_again, tts_vars>>

vars == <<job, env, pc, invocation, attempt, extracted_text, detected_language,
          confidence, breakdown, audio_b64, exc, ended, posts, calls, returned,
          lastErr, raisedAt, aux>>

results == <<extracted_text, detected_language, confidence, breakdown, audio_b64>>

\* a request body: each field is present with a value or absent
NoData ==
  [phrase_id |-> {}, source_type |-> {}, file_url |-> {}, source_text |-> {},
   language |-> {}, webhook_url |-> {}, webhook_secret |-> {}, audio_only |-> {}]

\* no call of generate_tts
TtsIdle ==
  /\ tts_language = None
  /\ voice_env = ""
  /\ voices = <<>>
  /\ voice = Nothing

\* no request, no Vision response
AuxIdle ==
  /\ data = NoData
  /\ response = Nothing
  /\ spawned = <<>>
  /\ texts = <<>>
  /\ target_lang = None
  /\ filtered = Nothing
  /\ ocr_result = Nothing
  /\ segments = <<>>
  /\ filtered_indices = {}
  /\ reconstructed = Nothing
  /\ filtered_again = Nothing
  /\ TtsIdle

\* the locals of a process_upload call that has not started
Fresh ==
  /\ invocation = 0
  /\ attempt = 0
  /\ extracted_text = Nothing
  /\ detected_language = None
  /\ confidence = 0
  /\ breakdown = Nothing
  /\ audio_b64 = Nothing
  /\ exc = Nothing
  /\ ended = Nothing
  /\ posts = <<>>
  /\ calls = [download |-> 0, whisper |-> 0, vision |-> 0, generate_breakdown |-> 0,
              llm |-> 0, generate_tts |-> 0]
  /\ returned = {}
  /\ lastErr = None
  /\ raisedAt = None

Init ==
  /\ AuxIdle
  /\ job \in JobsRead
  /\ env \in Envs
  /\ pc = "Extracting"
  /\ invocation = 0
  /\ attempt = 0
  /\ extracted_text = Nothing
  /\ detected_language = None
  /\ confidence = 0
  /\ breakdown = Nothing
  /\ audio_b64 = Nothing
  /\ exc = Nothing
  /\ ended = Nothing
  /\ posts = <<>>
  /\ calls = [download |-> 0, whisper |-> 0, vision |-> 0, generate_breakdown |-> 0,
              llm |-> 0, generate_tts |-> 0]
  /\ returned = {}
  /\ lastErr = None
  /\ raisedAt = None

Called(c) == calls' = [calls EXCEPT ![c] = IF @ < MaxCalls THEN @ + 1 ELSE @]

(***************************************************************************)
(* Exceptions: str(e) is the sequence of the pieces of the message.        *)
(***************************************************************************)
Exception(msg) == [type |-> "Exception", msg |-> msg]
ValueError(msg) == [type |-> "ValueError", msg |-> msg]
BackendError(e) == [type |-> "BackendError", msg |-> <<e>>]

\* mutant: the cause is left out of the message
DownloadFailed_without_cause(what, e) ==
  Exception(<<"Failed to download ", what, " after 3 attempts">>)

\* raise Exception(f"Failed to download audio after 3 attempts: {e}")
DownloadFailed(what, e) ==
  Exception(<<"Failed to download ", what, " after 3 attempts: ", e>>)

\* raise Exception(f"Failed to parse LLM response as JSON: {e}")
ParseFailed(e) == Exception(<<"Failed to parse LLM response as JSON: ", e>>)

\* an exception reaches `except Exception as e` of process_upload
Raise(e, stage) ==
  /\ exc' = {e}
  /\ raisedAt' = stage
  /\ pc' = "Reporting"
  /\ invocation' = 0
  /\ attempt' = 0

\* a remote function raises: the platform re-runs it `retries` times before the
\* exception reaches the caller
RemoteRaise(e, entry, retries, stage) ==
  IF invocation < retries
    THEN /\ pc' = entry
         /\ invocation' = invocation + 1
         /\ attempt' = 0
         /\ UNCHANGED <<exc, raisedAt>>
    ELSE Raise(e, stage)

(***************************************************************************)
(* Step 1 of process_upload: extraction.                                   *)
(***************************************************************************)
\* the registry loop of the audio branch: the first code one of whose
\* whisper_names equals the lower-cased name, else the name unchanged
whisper_code(name) ==
  LET hit(i) == lower(name) \in {lower(w) : w \in Range(LANGUAGE_REGISTRY[RegistryOrder[i]].whisper_names)}
      hits == {i \in DOMAIN RegistryOrder : hit(i)}
  IN  IF truthy(name) /\ hits # {}
        THEN RegistryOrder[CHOOSE i \in hits : \A k \in hits : i <= k]
        ELSE name

\* the dispatch on source_type; the text branch is the whole of the else branch
Extract ==
  /\ pc = "Extracting"
  /\ IF job.source_type = "audio"
       THEN pc' = "transcribe_audio" /\ UNCHANGED <<results, returned>>
       ELSE IF job.source_type = "image"
         THEN pc' = "ocr_image" /\ UNCHANGED <<results, returned>>
         ELSE /\ extracted_text' = job.source_text
              /\ detected_language' = or(job.language, "ru")
              /\ confidence' = 100
              /\ returned' = returned \cup {"extract"}
              /\ pc' = "CheckText"
              /\ UNCHANGED <<breakdown, audio_b64>>
  /\ UNCHANGED <<job, env, invocation, attempt, exc, ended, posts, calls, lastErr, raisedAt>>
  /\ UNCHANGED aux

\* httpx.get(url) + raise_for_status(): a missing url never downloads
DownloadOutcomes(url) == IF url = None THEN DownloadErrors ELSE {"ok"} \cup DownloadErrors

\* mutant: the download loop never gives up (`while True`)
Download_forever(here, there, what, retries) ==
  /\ pc = here
  /\ Called("download")
  /\ \E r \in DownloadOutcomes(job.file_url) :
       IF r = "ok"
         THEN /\ pc' = there
              /\ attempt' = 0
              /\ UNCHANGED <<invocation, exc, raisedAt, lastErr>>
         ELSE /\ lastErr' = r
              /\ UNCHANGED <<pc, invocation, attempt, exc, raisedAt>>
  /\ UNCHANGED <<job, env, results, ended, posts, returned>>
  /\ UNCHANGED aux

\* one pass of `for attempt in range(3)` of a download loop
Download(here, there, what, retries) ==
  /\ pc = here
  /\ Called("download")
  /\ \E r \in DownloadOutcomes(job.file_url) :
       IF r = "ok"
         THEN /\ pc' = there
              /\ attempt' = 0
              /\ UNCHANGED <<invocation, exc, raisedAt, lastErr>>
         ELSE /\ lastErr' = r
              /\ IF attempt + 1 < DownloadAttempts
                   THEN /\ attempt' = attempt + 1
                        /\ UNCHANGED <<pc, invocation, exc, raisedAt>>
                   ELSE RemoteRaise(DownloadFailed(what, r), here, retries, "download")
  /\ UNCHANGED <<job, env, results, ended, posts, returned>>
  /\ UNCHANGED aux

download_audio == Download("transcribe_audio", "whisper", "audio", transcribe_audio_retries)

download_image == Download("ocr_image", "vision", "image", ocr_image_retries)

\* the rest of transcribe_audio and lines 678-686 of process_upload
transcribe ==
  /\ pc = "whisper"
  /\ Called("whisper")
  /\ \/ /\ RemoteRaise(BackendError("WhisperError"), "transcribe_audio",
                       transcribe_audio_retries, "extract")
        /\ UNCHANGED <<results, returned, lastErr>>
     \/ \E t \in Texts, l \in WhisperLanguages :
          /\ extracted_text' = Some(strip(t))
          /\ detected_language' = whisper_code(or(job.language, l))
          /\ confidence' = 90
          /\ returned' = returned \cup {"extract"}
          /\ pc' = "CheckText"
          /\ invocation' = 0
          /\ attempt' = 0
          /\ UNCHANGED <<breakdown, audio_b64, exc, raisedAt, lastErr>>
  /\ UNCHANGED <<job, env, ended, posts>>
  /\ UNCHANGED aux

\* the rest of ocr_image and lines 691-693 of process_upload
\* mutant: the language OCR detected goes before the caller's hint
image_language_detected_first(language, result) ==
  or(result.language, or(language, "ru"))

\* language or result["language"] or "ru"
image_language(language, result) == or(language, or(result.language, "ru"))

ocr ==
  /\ pc = "vision"
  /\ IF ~env.GOOGLE_CREDENTIALS_JSON
       THEN /\ RemoteRaise(Exception(<<"GOOGLE_CREDENTIALS_JSON not configured">>),
                           "ocr_image", ocr_image_retries, "extract")
            /\ UNCHANGED <<results, returned, calls, lastErr, ocr_result>>
       ELSE /\ Called("vision")
            /\ \/ /\ RemoteRaise(Exception(<<"Vision API error: ", "quota">>),
                                 "ocr_image", ocr_image_retries, "extract")
                  /\ UNCHANGED <<results, returned, lastErr, ocr_result>>
               \/ \E r \in OcrResults \cup {[text |-> <<>>, language |-> None, confidence |-> 0]} :
                    /\ ocr_result' = Some(r)
                    /\ extracted_text' = Some(r.text)
                    /\ detected_language' = image_language(job.language, r)
                    /\ confidence' = r.confidence
                    /\ returned' = returned \cup {"extract"}
                    /\ pc' = "CheckText"
                    /\ invocation' = 0
                    /\ attempt' = 0
                    /\ UNCHANGED <<breakdown, audio_b64, exc, raisedAt, lastErr>>
  /\ UNCHANGED <<job, env, ended, posts>>
  /\ UNCHANGED aux_rest

\* mutant: the audio_only flag is ignored
needs_breakdown_always(j) == TRUE

\* if not audio_only
needs_breakdown(j) == ~j.audio_only

\* mutant: every source kind is synthesized
needs_tts_always(j) == TRUE

\* if source_type in ("image", "text")
needs_tts(j) == j.source_type \in {"image", "text"}

\* the stage that follows the breakdown (steps 3, 4 in program order)
after_breakdown(j) == IF needs_tts(j) THEN "generate_tts" ELSE "Delivering"

\* mutant: synthesis is started right after extraction, breakdown is not awaited
after_extract_tts_first(j) == after_breakdown(j)

\* the stage that follows the extraction (steps 2, 3, 4 in program order)
after_extract(j) ==
  IF needs_breakdown(j) THEN "generate_breakdown" ELSE after_breakdown(j)

\* mutant: the text is tested without being stripped
no_text_unstripped(o) == o = Nothing \/ the(o) = <<>>

\* the guard of `raise ValueError("No text extracted from input")`
no_text(o) == is_blank(o)

\* lines 700-704
\* `result` is read for the last time at line 692: from here on the model
\* drops it
CheckText ==
  /\ pc = "CheckText"
  /\ IF no_text(extracted_text)
       THEN /\ Raise(ValueError(<<"No text extracted from input">>), "extract")
            /\ UNCHANGED results
       ELSE /\ extracted_text' = Some(strip(the(extracted_text)))
            /\ pc' = after_extract(job)
            /\ UNCHANGED <<detected_language, confidence, breakdown, audio_b64,
                           invocation, attempt, exc, raisedAt>>
  /\ UNCHANGED <<job, env, ended, posts, calls, returned, lastErr>>
  /\ ocr_result' = Nothing
  /\ UNCHANGED aux_rest

(***************************************************************************)
(* Step 2: generate_breakdown.                                             *)
(***************************************************************************)
\* the checks of generate_breakdown before its retry loop
generate_breakdown_enter ==
  /\ pc = "generate_breakdown"
  /\ Called("generate_breakdown")
  /\ IF ~env.OPENAI_API_KEY
       THEN RemoteRaise(Exception(<<"OPENAI_API_KEY not configured">>),
                        "generate_breakdown", generate_breakdown_retries, "breakdown_config")
       ELSE IF get_language_config(detected_language) = {}
         THEN RemoteRaise(ValueError(<<"Unsupported language: ", detected_language>>),
                          "generate_breakdown", generate_breakdown_retries, "breakdown_config")
         ELSE /\ pc' = "llm"
              /\ attempt' = 0
              /\ UNCHANGED <<invocation, exc, raisedAt>>
  /\ UNCHANGED <<job, env, results, ended, posts, returned, lastErr>>
  /\ UNCHANGED aux

\* what client.chat.completions.create + json.loads can produce
LLMResponses ==
  {[kind |-> "error", e |-> e, fields |-> {}] : e \in LLMErrors}
  \cup {[kind |-> "unparseable", e |-> e, fields |-> {}] : e \in JSONErrors}
  \cup {[kind |-> "object", e |-> None, fields |-> S] : S \in SUBSET RequiredFields}

\* all(k in result for k in [...])
has_required_fields(result) == RequiredFields \subseteq DOMAIN result

\* the exception a failed attempt of the breakdown loop ends in, as the
\* except clauses see it: <<message of the attempt's error, what is raised on
\* the last attempt>>
breakdown_failure(resp) ==
  CASE resp.kind = "unparseable" -> <<resp.e, ParseFailed(resp.e)>>
    [] resp.kind = "error" -> <<resp.e, BackendError(resp.e)>>
    [] OTHER -> <<"Missing required fields in response",
                  ValueError(<<"Missing required fields in response">>)>>

\* one pass of `for attempt in range(3)` of generate_breakdown
llm ==
  /\ pc = "llm"
  /\ Called("llm")
  /\ \E resp \in LLMResponses :
       LET result == [k \in resp.fields |-> "v"] IN
       IF resp.kind = "object" /\ has_required_fields(result)
         THEN /\ breakdown' = Some(result)
              /\ returned' = returned \cup {"breakdown"}
              /\ pc' = after_breakdown(job)
              /\ invocation' = 0
              /\ attempt' = 0
              /\ UNCHANGED <<exc, raisedAt, lastErr>>
         ELSE /\ lastErr' = breakdown_failure(resp)[1]
              /\ UNCHANGED <<breakdown, returned>>
              /\ IF attempt + 1 < BreakdownAttempts
                   THEN /\ attempt' = attempt + 1
                        /\ UNCHANGED <<pc, invocation, exc, raisedAt>>
                   ELSE RemoteRaise(breakdown_failure(resp)[2], "generate_breakdown",
                                    generate_breakdown_retries, "breakdown")
  /\ UNCHANGED <<job, env, extracted_text, detected_language, confidence, audio_b64,
                 ended, posts>>
  /\ UNCHANGED aux

(***************************************************************************)
(* Step 3: generate_tts.                                                   *)
(***************************************************************************)
\* base64.b64encode(audio_data).decode(): 4 characters per 3 bytes, padded
b64encode(nbytes) == [b64chars |-> 4 * ((nbytes + 2) \div 3)]

generate_tts ==
  /\ pc = "generate_tts"
  /\ Called("generate_tts")
  /\ IF ~env.GOOGLE_CREDENTIALS_JSON
       THEN /\ RemoteRaise(Exception(<<"GOOGLE_CREDENTIALS_JSON not configured">>),
                           "generate_tts", generate_tts_retries, "tts")
            /\ UNCHANGED <<audio_b64, returned>>
       ELSE IF get_language_config(detected_language) = {}
         THEN /\ RemoteRaise(ValueError(<<"Unsupported language for TTS: ", detected_language>>),
                             "generate_tts", generate_tts_retries, "tts")
              /\ UNCHANGED <<audio_b64, returned>>
         ELSE \/ /\ RemoteRaise(BackendError("SynthesisError"),
                                "generate_tts", generate_tts_retries, "tts")
                 /\ UNCHANGED <<audio_b64, returned>>
              \/ \E n \in AudioSizes :
                   IF n = 0 \/ n < MinAudioBytes
                     THEN /\ RemoteRaise(Exception(<<"TTS returned empty audio">>),
                                         "generate_tts", generate_tts_retries, "tts")
                          /\ UNCHANGED <<audio_b64, returned>>
                     ELSE /\ audio_b64' = Some(b64encode(n))
                          /\ returned' = returned \cup {"tts"}
                          /\ pc' = "Delivering"
                          /\ invocation' = 0
                          /\ attempt' = 0
                          /\ UNCHANGED <<exc, raisedAt>>
  /\ UNCHANGED <<job, env, extracted_text, detected_language, confidence, breakdown,
                 ended, posts, lastErr>>
  /\ UNCHANGED aux

(***************************************************************************)
(* Step 4: the webhook.                                                    *)
(***************************************************************************)
\* `if breakdown:` on an optional dict
has_breakdown(o) == o # Nothing /\ DOMAIN the(o) # {}

result_data ==
  LET base == [phrase_id |-> job.phrase_id,
               source_text |-> the(extracted_text),
               detected_language |-> detected_language,
               language_confidence |-> confidence,
               audio_url |-> IF job.source_type = "audio" THEN job.file_url ELSE None,
               audio_data |-> audio_b64]
  IN  IF has_breakdown(breakdown)
        THEN [k \in RequiredFields |-> the(breakdown)[k]] @@ base
        ELSE base

payload ==
  [phrase_id |-> job.phrase_id, success |-> TRUE, result |-> result_data,
   audio_only |-> job.audio_only]

error_payload == [phrase_id |-> job.phrase_id, success |-> FALSE, error |-> the(exc).msg]

\* httpx.post(webhook_url, json=..., headers={"Authorization": f"Bearer {webhook_secret}"})
Post(json, outcome) ==
  [url |-> job.webhook_url, Authorization |-> <<"Bearer ", job.webhook_secret>>,
   json |-> json, outcome |-> outcome]

\* mutant: raise_for_status() left out, only a transport error fails the POST
post_failed_transport_only(outcome) == outcome = "transport_error"

\* response.raise_for_status() after the success POST: does the POST count as failed
post_failed(outcome) == outcome # "2xx"

post_error(outcome) ==
  IF outcome = "transport_error"
    THEN [type |-> "TransportError", msg |-> <<"ConnectError">>]
    ELSE [type |-> "HTTPStatusError", msg |-> <<"Server error '500' for url">>]

\* lines 745-753
Deliver ==
  /\ pc = "Delivering"
  /\ \E o \in PostOutcomes :
       /\ posts' = Append(posts, Post(payload, o))
       /\ IF post_failed(o)
            THEN Raise(post_error(o), "deliver")
            ELSE /\ pc' = "Done"
                 /\ UNCHANGED <<invocation, attempt, exc, raisedAt>>
  /\ UNCHANGED <<job, env, results, ended, calls, returned, lastErr>>
  /\ UNCHANGED aux

\* mutant: the exception of a failed error webhook replaces the caught one
reraised_masking(e, webhook_err) == IF webhook_err # {} THEN the(webhook_err) ELSE e

\* the bare `raise` that ends the except clause: the exception that was caught,
\* whether or not the error webhook raised webhook_err
reraised(e, webhook_err) == e

\* lines 755-775
Report ==
  /\ pc = "Reporting"
  /\ \E o \in PostOutcomes :
       LET webhook_err == IF o = "transport_error" THEN {post_error(o)} ELSE {} IN
       /\ posts' = Append(posts, Post(error_payload, o))
       /\ ended' = {reraised(the(exc), webhook_err)}
  /\ pc' = "Failed"
  /\ UNCHANGED <<job, env, results, invocation, attempt, exc, calls, returned,
                 lastErr, raisedAt>>
  /\ UNCHANGED aux

Next ==
  \/ Extract
  \/ download_audio
  \/ download_image
  \/ transcribe
  \/ ocr
  \/ CheckText
  \/ generate_breakdown_enter
  \/ llm
  \/ generate_tts
  \/ Deliver
  \/ Report

Spec == Init /\ [][Next]_vars

(***************************************************************************)
(* Properties.                                                             *)
(***************************************************************************)
Terminal == {"Done", "Failed"}
SuccessPosts == {i \in DOMAIN posts : posts[i].json.success}
FailurePosts == {i \in DOMAIN posts : ~posts[i].json.success}
Supported == {"ru", "ar", "zh", "es", "ka"}
BreakdownKeys == {"transliteration", "translation", "grammar_notes", "vocab_breakdown"}
StageFailures == {"download", "extract", "breakdown_config", "breakdown", "tts"}

\* C1: when a job has ended, exactly one outcome envelope (success or failure)
\* has been posted to its webhook: never both, never none.
C1_ExactlyOneEnvelope ==
  pc \in Terminal => Cardinality(SuccessPosts) + Cardinality(FailurePosts) = 1

\* C2: a job whose extraction, breakdown or synthesis failed ends Failed, has
\* posted exactly one failure envelope {phrase_id, success: false, error} to its
\* own webhook_url with its own bearer secret, and ends with the stage's
\* exception even when that POST failed.
C2_StageFailureReported ==
  (pc \in Terminal /\ raisedAt \in StageFailures) =>
    /\ pc = "Failed"
    /\ Cardinality(FailurePosts) = 1
    /\ \A i \in FailurePosts :
         /\ posts[i].url = job.webhook_url
         /\ posts[i].Authorization = <<"Bearer ", job.webhook_secret>>
         /\ posts[i].json = [phrase_id |-> job.phrase_id, success |-> FALSE,
                             error |-> the(exc).msg]
    /\ ended = exc
    /\ the(ended).type \notin {"TransportError", "HTTPStatusError"}

C2_Witness ==
  /\ pc = "Failed"
  /\ raisedAt = "tts"
  /\ posts[Len(posts)].outcome = "transport_error"

\* C3: a job is Done only after a success envelope POST answered with a success
\* status; a job whose success envelope POST failed ends Failed.
C3_DoneOnlyIfDelivered ==
  /\ pc = "Done" => \E i \in SuccessPosts : posts[i].outcome = "2xx"
  /\ (pc \in Terminal /\ \E i \in SuccessPosts : posts[i].outcome # "2xx") => pc = "Failed"

C3_Witness ==
  /\ pc = "Failed"
  /\ \E i \in SuccessPosts : posts[i].outcome = "non2xx"

\* C4: breakdown is entered only after extraction returned a non-empty text,
\* synthesis only after a required breakdown returned, and the success envelope
\* is posted only after every required stage returned.
C4_StagesInOrder ==
  /\ (calls.generate_breakdown > 0 \/ calls.llm > 0) =>
       /\ "extract" \in returned
       /\ extracted_text # Nothing
       /\ the(extracted_text) # <<>>
  /\ calls.generate_tts > 0 =>
       /\ "extract" \in returned
       /\ ~job.audio_only => "breakdown" \in returned
  /\ SuccessPosts # {} =>
       /\ "extract" \in returned
       /\ ~job.audio_only => "breakdown" \in returned
       /\ job.source_type \in {"image", "text"} => "tts" \in returned

C4_Witness ==
  /\ pc = "Done"
  /\ calls.llm > 1
  /\ calls.generate_tts > 1
  /\ job.source_type = "image"

\* C5: an audio_only job never enters generate_breakdown, its success envelope
\* carries none of the four breakdown fields, its extraction has run, and for an
\* image or text source its synthesis has run.
C5_AudioOnlySkipsBreakdown ==
  job.audio_only =>
    /\ calls.generate_breakdown = 0
    /\ calls.llm = 0
    /\ pc \in {"CheckText", "generate_tts", "Delivering", "Done"} =>
         /\ "extract" \in returned
         /\ job.source_type = "audio" => calls.download > 0 /\ calls.whisper > 0
         /\ job.source_type = "image" => calls.download > 0 /\ calls.vision > 0
    /\ \A i \in SuccessPosts :
         /\ DOMAIN posts[i].json.result \cap BreakdownKeys = {}
         /\ posts[i].json.audio_only
         /\ "extract" \in returned
         /\ job.source_type \in {"image", "text"} =>
              calls.generate_tts > 0 /\ "tts" \in returned

C5_Witness ==
  /\ job.audio_only
  /\ pc = "Done"
  /\ job.source_type = "image"

\* C6: synthesis is entered only for image and text sources and every success
\* envelope of such a source follows a synthesis; audio_data is non-null iff the
\* source is image or text; audio_url is the file_url for audio, null otherwise.
C6_SynthesisByKind ==
  /\ calls.generate_tts > 0 => job.source_type \in {"image", "text"}
  /\ \A i \in SuccessPosts :
       LET r == posts[i].json.result IN
       /\ job.source_type \in {"image", "text"} => calls.generate_tts > 0
       /\ r.audio_data # Nothing <=> job.source_type \in {"image", "text"}
       /\ job.source_type = "audio" => r.audio_url = job.file_url /\ r.audio_url # None
       /\ job.source_type # "audio" => r.audio_url = None

C6_Witness ==
  /\ pc = "Done"
  /\ job.source_type = "text"
  /\ job.file_url # None

\* C7: the language-model backend is called at most 3 times per job, a response
\* lacking a required field never becomes the breakdown, and a job that needs a
\* breakdown and ended without one ended Failed.
C7_AtMostThreeLLMCalls ==
  /\ calls.llm <= 3
  /\ breakdown # Nothing => BreakdownKeys \subseteq DOMAIN the(breakdown)
  /\ \A i \in SuccessPosts :
       ~job.audio_only => BreakdownKeys \subseteq DOMAIN posts[i].json.result
  /\ (pc \in Terminal /\ ~job.audio_only /\ breakdown = Nothing) => pc = "Failed"

\* C8: the media download is attempted at most 3 times per job; when it failed
\* every time the job ends Failed with a failure envelope naming the download
\* failure and neither breakdown nor synthesis was entered.
C8_AtMostThreeDownloads ==
  /\ calls.download <= 3
  /\ raisedAt = "download" =>
       /\ calls.generate_breakdown = 0
       /\ calls.generate_tts = 0
       /\ pc \in Terminal =>
            /\ pc = "Failed"
            /\ FailurePosts # {}
            /\ \A i \in FailurePosts : posts[i].json.error[1] = "Failed to download "

\* C9: a job whose resolved language is not a code of the registry never ends
\* Done and never posts a success envelope; it ends Failed with a failure envelope.
C9_UnsupportedLanguageFails ==
  ("extract" \in returned /\ detected_language \notin Supported) =>
    /\ SuccessPosts = {}
    /\ pc # "Done"
    /\ pc \in Terminal => FailurePosts # {}

\* C10 as stated: when a download loop or the breakdown loop ran out of
\* attempts, the error of the failure envelope is the message of the last
\* underlying error and nothing else.
C10_ErrorVerbatim ==
  raisedAt \in {"download", "breakdown"} =>
    \A i \in FailurePosts : posts[i].json.error = <<lastErr>>

\* C10 as amended: the error of the failure envelope ends with the message of
\* the last underlying error; a download failure puts "Failed to download
\* audio|image after 3 attempts: " before it, an unparseable last response puts
\* "Failed to parse LLM response as JSON: " before it, and only another
\* breakdown error is reported by its message alone.
C10_ErrorCarriesLastMessage ==
  raisedAt \in {"download", "breakdown"} =>
    \A i \in FailurePosts :
      LET error == posts[i].json.error IN
      /\ error[Len(error)] = lastErr
      /\ raisedAt = "download" =>
           error = <<"Failed to download ",
                     IF job.source_type = "audio" THEN "audio" ELSE "image",
                     " after 3 attempts: ", lastErr>>
      /\ (raisedAt = "breakdown" /\ lastErr \in JSONErrors) =>
           error = <<"Failed to parse LLM response as JSON: ", lastErr>>
      /\ (raisedAt = "breakdown" /\ lastErr \notin JSONErrors) => error = <<lastErr>>

C10_Witness ==
  /\ pc = "Failed"
  /\ raisedAt = "download"
  /\ calls.download = 9
  /\ FailurePosts # {}


\* C11: once extraction has returned a text that is absent or empty after
\* trimming, for any source kind, breakdown and synthesis are never entered, no
\* success envelope is posted, and the job ends Failed with a failure envelope.
C11_EmptyExtractionFails ==
  ("extract" \in returned
     /\ (extracted_text = {}
           \/ \A i \in 1..Len(the(extracted_text)) : the(extracted_text)[i] = " ")) =>
    /\ calls.generate_breakdown = 0
    /\ calls.llm = 0
    /\ calls.generate_tts = 0
    /\ SuccessPosts = {}
    /\ pc \in {"CheckText", "Reporting", "Failed"}
    /\ pc = "Failed" =>
         /\ Cardinality(FailurePosts) = 1
         /\ \A i \in FailurePosts :
              posts[i].json.error = <<"No text extracted from input">>

C11_Witness ==
  /\ pc = "Failed"
  /\ job.source_type = "image"
  /\ extracted_text = {<<" ">>}
  /\ FailurePosts # {}


(***************************************************************************)
(* The trigger endpoint.                                                   *)
(***************************************************************************)
\* the request bodies: any subset of the fields, phrase_id possibly empty
Requests ==
  [phrase_id : {{}, {"p1"}, {""}},
   source_type : {{}, {"audio"}, {"image"}, {"text"}},
   file_url : {{}, {"https://files/f1"}},
   source_text : {{}, {<<"a">>}},
   language : {{}, {"ru"}},
   webhook_url : {{}, {"https://hook.one"}},
   webhook_secret : {{}, {"secret-one"}},
   audio_only : {{}, {TRUE}}]

\* data.get(key, default)
get(d, key, default) == IF d[key] = {} THEN default ELSE the(d[key])

\* data.get(key) of an optional text: None when the key is absent
get_text(d, key) == d[key]

\* data[key] raises KeyError when the key is absent
has_key(d, key) == d[key] # {}

\* mutant: only an absent phrase_id is refused, an empty one is spawned
missing_phrase_id_absent_only(d) == d.phrase_id = {}

\* `if not phrase_id` on data.get("phrase_id")
missing_phrase_id(d) == ~truthy(get(d, "phrase_id", None))

\* the keyword arguments of process_upload.spawn
spawn_args(d) ==
  [phrase_id |-> get(d, "phrase_id", None),
   source_type |-> get(d, "source_type", "text"),
   file_url |-> get(d, "file_url", None),
   source_text |-> get_text(d, "source_text"),
   language |-> get(d, "language", None),
   webhook_url |-> get(d, "webhook_url", None),
   webhook_secret |-> get(d, "webhook_secret", None),
   audio_only |-> get(d, "audio_only", FALSE)]

\* trigger(data); a spawned process_upload starts running on its own
trigger ==
  /\ pc = "Idle"
  /\ response = Nothing
  /\ IF missing_phrase_id(data)
       THEN /\ response' = {[error |-> "Missing phrase_id", status |-> "error"]}
            /\ UNCHANGED <<spawned, job, pc>>
       ELSE IF ~has_key(data, "webhook_url") \/ ~has_key(data, "webhook_secret")
         THEN /\ response' = {[raised |-> "KeyError"]}
              /\ UNCHANGED <<spawned, job, pc>>
         ELSE /\ spawned' = Append(spawned, spawn_args(data))
              /\ job' = spawn_args(data)
              /\ pc' = "Extracting"
              /\ response' = {[status |-> "processing", phrase_id |-> get(data, "phrase_id", None)]}
  /\ UNCHANGED <<env, invocation, attempt, results, exc, ended, posts, calls, returned,
                 lastErr, raisedAt, tts_vars, data, texts, target_lang, filtered, ocr_result,
               segments, filtered_indices, reconstructed,
                 filtered_again>>

TriggerInit ==
  /\ data \in Requests
  /\ response = Nothing
  /\ spawned = <<>>
  /\ texts = <<>>
  /\ target_lang = None
  /\ filtered = Nothing
  /\ ocr_result = Nothing
  /\ segments = <<>>
  /\ filtered_indices = {}
  /\ reconstructed = Nothing
  /\ filtered_again = Nothing
  /\ TtsIdle
  /\ job = spawn_args(NoData)
  /\ env = [OPENAI_API_KEY |-> TRUE, GOOGLE_CREDENTIALS_JSON |-> TRUE]
  /\ pc = "Idle"
  /\ Fresh

TriggerNext == trigger \/ Next

TriggerSpec == TriggerInit /\ [][TriggerNext]_vars

\* C12 as stated: an answered request without phrase_id got the error response
\* and spawned nothing; any other answered request spawned exactly one job with
\* its phrase_id and got {status: "processing", phrase_id}.
C12_TriggerAnyFields ==
  response # Nothing =>
    IF data.phrase_id = {}
      THEN /\ response = {[error |-> "Missing phrase_id", status |-> "error"]}
           /\ spawned = <<>>
      ELSE /\ Len(spawned) = 1
           /\ spawned[1].phrase_id = the(data.phrase_id)
           /\ response = {[status |-> "processing", phrase_id |-> the(data.phrase_id)]}

\* C12 as amended: a request whose phrase_id is absent or empty is answered
\* {status: "error", error: "Missing phrase_id"} and spawns nothing; a request
\* with a phrase_id but without webhook_url or webhook_secret raises KeyError,
\* spawns nothing and gets no such answer; every other request spawns exactly
\* one job with its phrase_id and is answered {status: "processing", phrase_id}
\* in the step that spawns it, before the job has run.
C12_TriggerByFields ==
  /\ [](response # Nothing =>
         IF data.phrase_id \in {{}, {""}}
           THEN /\ response = {[error |-> "Missing phrase_id", status |-> "error"]}
                /\ spawned = <<>>
           ELSE IF data.webhook_url = {} \/ data.webhook_secret = {}
             THEN /\ response = {[raised |-> "KeyError"]}
                  /\ spawned = <<>>
             ELSE /\ Len(spawned) = 1
                  /\ spawned[1].phrase_id = the(data.phrase_id)
                  /\ spawned[1] = job
                  /\ response = {[status |-> "processing",
                                  phrase_id |-> the(data.phrase_id)]})
  /\ [][(response = Nothing /\ response' # Nothing /\ spawned' # <<>>) =>
          (pc' = "Extracting" /\ posts' = <<>>)]_vars

C12_Witness ==
  /\ response = {[status |-> "processing", phrase_id |-> "p1"]}
  /\ Len(spawned) = 1
  /\ data.source_type = {}
  /\ pc = "Extracting"


(***************************************************************************)
(* Termination: every call and every POST returns or raises, so            *)
(* process_upload keeps taking its next step.                              *)
(***************************************************************************)
FairSpec == Spec /\ WF_vars(Next)

\* C13: every job started by process_upload eventually reaches Done or Failed.
C13_Terminates == <>(pc \in {"Done", "Failed"})

C13_Witness ==
  /\ pc = "Failed"
  /\ calls.download = 9
  /\ calls.whisper = 2


\* C14 as stated: a text job that posted a success envelope called no
\* extraction backend, and the envelope carries the supplied text unchanged and
\* confidence 1.0.
C14_TextVerbatim ==
  job.source_type = "text" =>
    \A i \in SuccessPosts :
      /\ calls.download = 0 /\ calls.whisper = 0 /\ calls.vision = 0
      /\ posts[i].json.result.source_text = the(job.source_text)
      /\ posts[i].json.result.language_confidence = 100

\* a text with nothing but whitespace before and after `inner`, which neither
\* starts nor ends with whitespace
IsTrimOf(inner, text) ==
  /\ inner # <<>> => ~isspace(inner[1]) /\ ~isspace(inner[Len(inner)])
  /\ \E a \in 0..Len(text) :
       /\ a + Len(inner) <= Len(text)
       /\ \A k \in 1..Len(text) :
            IF k > a /\ k <= a + Len(inner) THEN text[k] = inner[k - a]
                                            ELSE isspace(text[k])

\* C14 as amended: a text job that posted a success envelope called no
\* extraction backend, and the envelope carries the supplied text with its
\* leading and trailing whitespace removed (otherwise unchanged) and
\* confidence 1.0.
C14_TextTrimmed ==
  job.source_type = "text" =>
    \A i \in SuccessPosts :
      /\ calls.download = 0 /\ calls.whisper = 0 /\ calls.vision = 0
      /\ posts[i].json.result.source_text # <<>>
      /\ IsTrimOf(posts[i].json.result.source_text, the(job.source_text))
      /\ posts[i].json.result.language_confidence = 100

C14_Witness ==
  /\ pc = "Done"
  /\ job.source_type = "text"
  /\ job.source_text = {<<" ", "a">>}


(***************************************************************************)
(* The OCR text filtering functions (lines 245-451) and the part of        *)
(* ocr_image that follows the Vision response (lines 497-523).  The text   *)
(* of an annotation is a sequence of characters; a character outside ASCII *)
(* is written by the name of its code point.  A locale is a name.          *)
(***************************************************************************)
MaxSegments == 2
MaxPlaced == 3

\* ord(c) on the characters of the annotations of the model
ord(c) ==
  CASE c = " " -> 32
    [] c = "\n" -> 10
    [] c = "O" -> 79
    [] c = "K" -> 75
    [] c = "a" -> 97
    [] c = "k" -> 107
    [] c = "o" -> 111
    [] c = "U+0430" -> 1072
    [] c = "U+0434" -> 1076

\* str.lower() on a text
lower_text(t) ==
  [i \in DOMAIN t |-> CASE t[i] = "O" -> "o" [] t[i] = "K" -> "k" [] OTHER -> t[i]]

\* s[:2] on the lower-cased locale names and locale variants of the model
first2(s) ==
  CASE s \in {"rus", "russian", "ru-ru"} -> "ru"
    [] s \in {"ara", "arabic"} -> "ar"
    [] s = "zho" -> "zh"
    [] s \in {"chi", "chinese"} -> "ch"
    [] s \in {"spa", "spanish"} -> "sp"
    [] s = "kat" -> "ka"
    [] s \in {"geo", "georgian"} -> "ge"
    [] OTHER -> s

\* the loop over LANGUAGE_REGISTRY.items(), from the i-th entry on
RECURSIVE map_locale_from(_, _)
map_locale_from(locale_lower, i) ==
  IF i > Len(RegistryOrder) THEN None
  ELSE LET config == LANGUAGE_REGISTRY[RegistryOrder[i]]
           variants == Range(config.locale_variants) IN
       IF \/ locale_lower \in {lower(v) : v \in variants}
          \/ first2(locale_lower) \in {lower(first2(v)) : v \in variants}
         THEN RegistryOrder[i]
         ELSE map_locale_from(locale_lower, i + 1)

map_locale_to_language(locale) ==
  IF ~truthy(locale) THEN None ELSE map_locale_from(lower(locale), 1)

\* (target_chars / total_chars) > 0.5, on the two counts
detect_script(text, lang) ==
  IF strip(text) = <<>> THEN FALSE
  ELSE LET config == get_language_config(lang) IN
       IF config = {} THEN FALSE
       ELSE LET target_range == the(config).script_range
                target_chars ==
                  Cardinality({i \in DOMAIN text : /\ target_range[1] <= ord(text[i])
                                                   /\ ord(text[i]) <= target_range[2]})
                total_chars == Cardinality({i \in DOMAIN text : ~isspace(text[i])})
            IN IF total_chars = 0 THEN FALSE ELSE 2 * target_chars > total_chars

ENGLISH_UI_PATTERNS ==
  {<<"m", "e", "n", "u">>, <<"b", "a", "c", "k">>, <<"h", "o", "m", "e">>,
   <<"l", "o", "g", "i", "n">>, <<"l", "o", "g", "o", "u", "t">>,
   <<"n", "e", "x", "t">>, <<"p", "r", "e", "v">>, <<"s", "h", "a", "r", "e">>,
   <<"s", "a", "v", "e">>, <<"c", "a", "n", "c", "e", "l">>, <<"o", "k">>,
   <<"y", "e", "s">>, <<"n", "o">>, <<"s", "e", "t", "t", "i", "n", "g", "s">>,
   <<"h", "e", "l", "p">>, <<"a", "b", "o", "u", "t">>, <<"c", "l", "o", "s", "e">>,
   <<"e", "x", "i", "t">>, <<"m", "o", "r", "e">>, <<"l", "e", "s", "s">>,
   <<"v", "i", "e", "w">>, <<"e", "d", "i", "t">>, <<"d", "e", "l", "e", "t", "e">>,
   <<"a", "d", "d">>, <<"s", "e", "a", "r", "c", "h">>,
   <<"f", "i", "l", "t", "e", "r">>, <<"s", "o", "r", "t">>}

\* defined at lines 283-291; no function of the program calls it
is_ui_noise(text) == lower_text(strip(text)) \in ENGLISH_UI_PATTERNS


\* A float that is a ratio of integers is the pair <<numerator, denominator>>
\* with a positive denominator; ratios are compared exactly.
lt(a, b) == a[1] * b[2] < b[1] * a[2]
eq(a, b) == a[1] * b[2] = b[1] * a[2]
add(a, b) == <<a[1] * b[2] + b[1] * a[2], a[2] * b[2]>>
mul(a, b) == <<a[1] * b[1], a[2] * b[2]>>
min(a, b) == IF lt(b, a) THEN b ELSE a
max(a, b) == IF lt(a, b) THEN b ELSE a
\* abs(a - b)
abs_diff(a, b) ==
  LET n == a[1] * b[2] - b[1] * a[2] IN <<IF n < 0 THEN 0 - n ELSE n, a[2] * b[2]>>

\* sum(s[1..n])
RECURSIVE sum(_, _)
sum(s, n) == IF n = 0 THEN 0 ELSE s[n] + sum(s, n - 1)

\* a segment carries the vertices of its bounding_poly (none: no polygon)
avg_y(segment) ==
  LET v == segment.vertices IN
  IF v = <<>> THEN <<0, 1>> ELSE <<sum([i \in DOMAIN v |-> v[i].y], Len(v)), Len(v)>>

avg_x(segment) ==
  LET v == segment.vertices IN
  IF v = <<>> THEN <<0, 1>> ELSE <<sum([i \in DOMAIN v |-> v[i].x], Len(v)), Len(v)>>

\* `for i in filtered_indices`: a set of small integers is iterated in
\* ascending order.  An index of the model is the Python index plus one.
RECURSIVE ascending(_)
ascending(S) ==
  IF S = {} THEN <<>>
  ELSE LET m == CHOOSE m \in S : \A n \in S : m <= n IN <<m>> \o ascending(S \ {m})

\* the sort key (x[2], x[3]) of segment i, and the order of two keys
sort_key(segs, i) == <<avg_y(segs[i]), avg_x(segs[i])>>
key_lt(p, q) == lt(p[1], q[1]) \/ (eq(p[1], q[1]) /\ lt(p[2], q[2]))

\* list.sort is stable: an element goes after every element whose key is not greater
RECURSIVE insort(_, _, _)
insort(sorted, e, segs) ==
  IF sorted = <<>> THEN <<e>>
  ELSE IF key_lt(sort_key(segs, e), sort_key(segs, Head(sorted)))
         THEN <<e>> \o sorted
         ELSE <<Head(sorted)>> \o insort(Tail(sorted), e, segs)

RECURSIVE sort(_, _)
sort(list, segs) ==
  IF list = <<>> THEN <<>>
  ELSE insort(sort(SubSeq(list, 1, Len(list) - 1), segs), list[Len(list)], segs)

\* sep.join(parts)
RECURSIVE join(_, _)
join(sep, parts) ==
  IF parts = <<>> THEN <<>>
  ELSE IF Len(parts) = 1 THEN parts[1]
  ELSE parts[1] \o <<sep>> \o join(sep, Tail(parts))

SameLinePixels == 20

\* `abs(y - prev_y) < 20`
same_line(y, prev_y) == lt(abs_diff(y, prev_y), <<SameLinePixels, 1>>)

\* mutant: a finished line replaces the lines before it
close_line_overwriting(lines, current_line) ==
  IF current_line # <<>> THEN <<join(" ", current_line)>> ELSE lines

close_line(lines, current_line) ==
  IF current_line # <<>> THEN Append(lines, join(" ", current_line)) ELSE lines

\* the loop at lines 332-339 over the sorted kept segments, and lines 342-343
RECURSIVE group_lines(_, _, _, _, _)
group_lines(segs, kept_segments, lines, current_line, prev_y) ==
  IF kept_segments = <<>> THEN close_line(lines, current_line)
  ELSE LET seg == segs[Head(kept_segments)]
           y == avg_y(seg) IN
       IF prev_y = Nothing \/ same_line(y, the(prev_y))
         THEN group_lines(segs, Tail(kept_segments), lines,
                          Append(current_line, seg.description), Some(y))
         ELSE group_lines(segs, Tail(kept_segments), close_line(lines, current_line),
                          <<seg.description>>, Some(y))

reconstruct_with_lines(segs, indices) ==
  IF segs = <<>> \/ indices = {} THEN <<>>
  ELSE join("\n", group_lines(segs, sort(ascending(indices), segs), <<>>, <<>>, Nothing))


\* mutant: the value is not clamped
calculate_confidence_unclamped(total_segments, kept_segments, original_locale, lang) ==
  IF total_segments = 0 THEN <<5, 10>>
  ELSE add(mul(<<kept_segments, total_segments>>, <<8, 10>>),
           IF map_locale_to_language(original_locale) = lang THEN <<2, 10>> ELSE <<0, 10>>)

calculate_confidence(total_segments, kept_segments, original_locale, lang) ==
  IF total_segments = 0 THEN <<5, 10>>
  ELSE LET match_ratio == <<kept_segments, total_segments>>
           locale_match == map_locale_to_language(original_locale) = lang
           conf == add(mul(match_ratio, <<8, 10>>),
                       IF locale_match THEN <<2, 10>> ELSE <<0, 10>>)
       IN max(<<5, 10>>, min(<<99, 100>>, conf))

\* the body of the loop at lines 412-429: is segment i added to filtered_indices
keeps(segment, lang) ==
  LET text == strip(segment.description) IN
  /\ text # <<>>
  /\ \/ /\ truthy(segment.locale)
        /\ map_locale_to_language(segment.locale) = lang
     \/ detect_script(text, lang)

filter_segments(segs, lang) == {i \in DOMAIN segs : keeps(segs[i], lang)}

\* returns (filtered_text, confidence)
filter_target_language_segments(anns, lang) ==
  IF anns = <<>> THEN [text |-> <<>>, confidence |-> <<5, 10>>]
  ELSE IF Len(anns) = 1
    THEN [text |-> strip(anns[1].description), confidence |-> <<5, 10>>]
  ELSE LET segs == Tail(anns)
           indices == filter_segments(segs, lang)
       IN [text |-> reconstruct_with_lines(segs, indices),
           confidence |-> calculate_confidence(Len(segs), Cardinality(indices),
                                               or(anns[1].locale, ""), lang)]

MinFilteredChars == 5

\* mutant: a result of 4 characters is not replaced
falls_back_below_4(filtered_text) == filtered_text = <<>> \/ Len(filtered_text) < 4

\* `if not filtered_text or len(filtered_text) < 5`
falls_back(filtered_text) ==
  filtered_text = <<>> \/ Len(filtered_text) < MinFilteredChars

\* lines 497-523 of ocr_image: the result for the annotations Vision returned
ocr_image_result(anns) ==
  IF anns = <<>> THEN [text |-> <<>>, language |-> None, confidence |-> <<0, 1>>]
  ELSE LET original_locale == or(anns[1].locale, "")
           detected_lang == map_locale_to_language(original_locale)
           full == strip(anns[1].description)
           f == filter_target_language_segments(anns, detected_lang)
       IN IF truthy(detected_lang)
            THEN IF falls_back(f.text)
                   THEN [text |-> full, language |-> detected_lang, confidence |-> <<50, 100>>]
                   ELSE [text |-> f.text, language |-> detected_lang,
                         confidence |-> f.confidence]
            ELSE [text |-> full, language |-> detected_lang, confidence |-> <<50, 100>>]


\* the bounding box of a word: four vertices around the centre (cx, cy)
BoxAt(cx, cy) ==
  <<[x |-> cx - 5, y |-> cy - 5], [x |-> cx + 5, y |-> cy - 5],
    [x |-> cx + 5, y |-> cy + 5], [x |-> cx - 5, y |-> cy + 5]>>

\* an EntityAnnotation: description, locale ("" when Vision gives none),
\* bounding_poly.vertices
Annotation(d, l, v) == [description |-> d, locale |-> l, vertices |-> v]

SeqsUpTo(S, n) == UNION {[1..k -> S] : k \in 0..n}

\* texts[1:] of a response: words that differ in text and locale hint
FilterSegments ==
  {Annotation(<<"o", "k">>, "", BoxAt(10, 10)),
   Annotation(<<"o", "k">>, "ru", BoxAt(10, 10)),
   Annotation(<<"O", "K", " ">>, "en", BoxAt(10, 10)),
   Annotation(<<"U+0434", "U+0430">>, "", BoxAt(10, 10)),
   Annotation(<<"U+0434", "U+0430">>, "ru-RU", BoxAt(10, 10)),
   Annotation(<<" ">>, "ru", BoxAt(10, 10)),
   Annotation(<<"U+0434", "a">>, "", BoxAt(10, 10)),
   Annotation(<<"U+0434">>, "", BoxAt(10, 10)),
   Annotation(<<"U+0434", " ", "a">>, "", BoxAt(10, 10)),
   Annotation(<<"U+0434", "U+0430">>, "", BoxAt(10, 50))}

\* texts[0] of a response: the full text and the locale of the document
FullAnnotations ==
  {Annotation(d, l, <<>>) :
     d \in {<<" ", "U+0434", "U+0430", "\n">>, <<"o", "k">>},
     l \in {"", "ru", "ru-RU", "en", "es"}}

\* response.text_annotations
AnnotationLists ==
  {<<>>} \cup {<<f>> \o s : f \in FullAnnotations,
                           s \in SeqsUpTo(FilterSegments, MaxSegments)}

TargetLanguages == get_supported_languages \cup {"fr"}

\* words that differ in position
PlacedSegments ==
  {Annotation(d, "", v) :
     d \in {<<"o", "k">>, <<"U+0434", "U+0430">>},
     v \in {BoxAt(10, 10), BoxAt(30, 30), BoxAt(50, 9), <<>>}}
  \cup {Annotation(<<"O", "K", " ">>, "en", BoxAt(10, 10))}

pipeline == <<job, env, pc, invocation, attempt, extracted_text, detected_language,
              confidence, breakdown, audio_b64, exc, ended, posts, calls, returned,
              lastErr, raisedAt>>

\* no job and no request
NoJob ==
  /\ data = NoData
  /\ response = Nothing
  /\ spawned = <<>>
  /\ job = spawn_args(NoData)
  /\ env = [OPENAI_API_KEY |-> TRUE, GOOGLE_CREDENTIALS_JSON |-> TRUE]
  /\ pc = "Idle"
  /\ Fresh

\* a call of filter_target_language_segments(texts, target_lang)
call_filter ==
  /\ filtered = Nothing
  /\ filtered' = Some(filter_target_language_segments(texts, target_lang))
  /\ UNCHANGED <<tts_vars, pipeline, data, response, spawned, texts, target_lang, ocr_result,
                 segments, filtered_indices, reconstructed,
                 filtered_again>>

\* ocr_image from the Vision response on
ocr_image_returns ==
  /\ ocr_result = Nothing
  /\ ocr_result' = Some(ocr_image_result(texts))
  /\ UNCHANGED <<tts_vars, pipeline, data, response, spawned, texts, target_lang, filtered,
                 segments, filtered_indices, reconstructed,
                 filtered_again>>

FilterInit ==
  /\ NoJob
  /\ texts \in AnnotationLists
  /\ target_lang \in TargetLanguages
  /\ filtered = Nothing
  /\ ocr_result = Nothing
  /\ segments = <<>>
  /\ filtered_indices = {}
  /\ reconstructed = Nothing
  /\ filtered_again = Nothing
  /\ TtsIdle

FilterNext == call_filter \/ ocr_image_returns

FilterSpec == FilterInit /\ [][FilterNext]_vars

\* a call of reconstruct_with_lines(segments, filtered_indices)
call_reconstruct ==
  /\ reconstructed = Nothing
  /\ reconstructed' = Some(reconstruct_with_lines(segments, filtered_indices))
  /\ UNCHANGED <<tts_vars, pipeline, data, response, spawned, texts, target_lang, filtered,
                 ocr_result, segments, filtered_indices, filtered_again>>

ReconstructInit ==
  /\ NoJob
  /\ texts = <<>>
  /\ target_lang = None
  /\ filtered = Nothing
  /\ ocr_result = Nothing
  /\ segments \in SeqsUpTo(PlacedSegments, MaxPlaced)
  /\ filtered_indices \in SUBSET DOMAIN segments
  /\ reconstructed = Nothing
  /\ filtered_again = Nothing
  /\ TtsIdle

ReconstructNext == call_reconstruct

ReconstructSpec == ReconstructInit /\ [][ReconstructNext]_vars


(***************************************************************************)
(* Properties of the OCR functions.                                        *)
(***************************************************************************)
Half == <<5, 10>>

\* C15: the filter given the full annotation alone or with exactly one segment
\* returns the full document text (as given or trimmed) and confidence
\* exactly 0.5.
C15_FewSegmentsFullText ==
  (filtered # Nothing /\ Len(texts) \in {1, 2}) =>
    /\ the(filtered).text \in {texts[1].description, strip(texts[1].description)}
    /\ eq(the(filtered).confidence, Half)

\* the segments of the response the filter was called on, and those it keeps
Total == Len(texts) - 1
Kept == Cardinality(filter_segments(Tail(texts), target_lang))

\* 100 * Total * (0.8 * Kept / Total + 0.2 if the document locale maps to the
\* target language), clamped to 100 * Total * [0.5, 0.99]
ClampedScore ==
  LET raw == 80 * Kept +
             (IF map_locale_to_language(texts[1].locale) = target_lang
                THEN 20 * Total ELSE 0)
  IN IF raw < 50 * Total THEN 50 * Total
     ELSE IF raw > 99 * Total THEN 99 * Total ELSE raw

InConfidenceRange(c) == 50 * c[2] <= 100 * c[1] /\ 100 * c[1] <= 99 * c[2]

\* C16: the confidence the filter returns, and the one ocr_image reports for a
\* non-empty annotation list, lies in [0.5, 0.99]; with segments, the kept
\* ones are at most the total and the filter's confidence is
\* 0.8 * kept / total, plus 0.2 when the document locale maps to the target
\* language, clamped to that interval.
C16_ConfidenceFormula ==
  /\ filtered # Nothing =>
       /\ InConfidenceRange(the(filtered).confidence)
       /\ Len(texts) >= 2 =>
            /\ Kept <= Total
            /\ the(filtered).confidence[1] * 100 * Total
                 = ClampedScore * the(filtered).confidence[2]
  /\ (ocr_result # Nothing /\ texts # <<>>) =>
       InConfidenceRange(the(ocr_result).confidence)

C16_Witness ==
  /\ filtered # Nothing
  /\ ocr_result # Nothing
  /\ Len(texts) = 3
  /\ Kept = 1
  /\ eq(the(filtered).confidence, <<6, 10>>)


\* the text the claim describes for the sorted kept segments `order`: a space
\* before a segment whose vertical centroid is at most 20 from the previous
\* one's, a line break before one that is more than 20 away
RECURSIVE JoinedWithin20(_, _)
JoinedWithin20(segs, order) ==
  IF Len(order) = 1 THEN segs[order[1]].description
  ELSE LET gap == abs_diff(avg_y(segs[order[2]]), avg_y(segs[order[1]]))
           sep == IF lt(<<20, 1>>, gap) THEN "\n" ELSE " "
       IN segs[order[1]].description \o <<sep>> \o JoinedWithin20(segs, Tail(order))

\* C17: in sorted order a kept segment continues the current line when its
\* vertical centroid differs from the previous kept segment's by at most 20
\* (exactly 20 included) and starts a new line only when it differs by more.
C17_WithinTwentyInclusive ==
  (reconstructed # Nothing /\ filtered_indices # {}) =>
    the(reconstructed) =
      JoinedWithin20(segments, sort(ascending(filtered_indices), segments))

\* every two kept segments are less than 20 apart vertically
OnOneLine ==
  \A i, j \in filtered_indices :
    lt(abs_diff(avg_y(segments[i]), avg_y(segments[j])), <<20, 1>>)

\* C18: kept segments whose vertical centroids are within 20 of each other
\* come out on one line in ascending order of their horizontal centroids.
C18_LineInHorizontalOrder ==
  (reconstructed # Nothing /\ filtered_indices # {} /\ OnOneLine) =>
    \E order \in [1..Cardinality(filtered_indices) -> filtered_indices] :
      /\ \A a, b \in DOMAIN order : a # b => order[a] # order[b]
      /\ \A k \in 1..(Len(order) - 1) :
           ~lt(avg_x(segments[order[k + 1]]), avg_x(segments[order[k]]))
      /\ the(reconstructed) =
           join(" ", [k \in DOMAIN order |-> segments[order[k]].description])

\* C19: in ocr_image, with a language detected, a filtered text shorter than 5
\* characters (or empty) is replaced by the trimmed full text with confidence
\* exactly 0.5; a filtered text of 5 or more characters is reported with the
\* filter's confidence, both unchanged.
C19_FallbackLaw ==
  (/\ filtered # Nothing
   /\ ocr_result # Nothing
   /\ texts # <<>>
   /\ target_lang = map_locale_to_language(texts[1].locale)) =>
    IF Len(the(filtered).text) < 5
      THEN /\ IsTrimOf(the(ocr_result).text, texts[1].description)
           /\ eq(the(ocr_result).confidence, Half)
      ELSE /\ the(ocr_result).text = the(filtered).text
           /\ the(ocr_result).confidence = the(filtered).confidence

C19_Witness ==
  /\ filtered # Nothing
  /\ ocr_result # Nothing
  /\ texts # <<>>
  /\ target_lang = map_locale_to_language(texts[1].locale)
  /\ Len(the(filtered).text) = 4
  /\ eq(the(filtered).confidence, <<99, 100>>)
  /\ the(ocr_result).text # the(filtered).text
  /\ eq(the(ocr_result).confidence, Half)

\* C20: for a target language of the registry the filter keeps no segment
\* whose trimmed, lower-cased text is one of the UI terms.
C20_UiTermsNeverKept ==
  (filtered # Nothing /\ Len(texts) >= 2 /\ target_lang \in get_supported_languages) =>
    \A i \in DOMAIN Tail(texts) :
      is_ui_noise(Tail(texts)[i].description) =>
        i \notin filter_segments(Tail(texts), target_lang)


(***************************************************************************)
(* Two runs of the filter on the same input.  What a run does not take     *)
(* from its input is the order in which it iterates the registry and the   *)
(* set filtered_indices; a set gives no order of its own (two equal sets   *)
(* of integers can iterate differently, e.g. {0, 8} and {8, 0}), so each   *)
(* run is given one.                                                       *)
(***************************************************************************)
\* the orders in which the collection S can be iterated
Orders(S) ==
  {f \in [1..Cardinality(S) -> S] : \A a, b \in DOMAIN f : a # b => f[a] # f[b]}

\* orders of the entries of LANGUAGE_REGISTRY: the one of the source, its
\* reverse and a third
RegistryOrders ==
  {RegistryOrder, <<"ka", "es", "zh", "ar", "ru">>, <<"zh", "ka", "ru", "es", "ar">>}

\* map_locale_to_language with LANGUAGE_REGISTRY.items() iterated in `registry`
RECURSIVE map_locale_in(_, _, _)
map_locale_in(locale_lower, registry, i) ==
  IF i > Len(registry) THEN None
  ELSE LET variants == Range(LANGUAGE_REGISTRY[registry[i]].locale_variants) IN
       IF \/ locale_lower \in {lower(v) : v \in variants}
          \/ first2(locale_lower) \in {lower(first2(v)) : v \in variants}
         THEN registry[i]
         ELSE map_locale_in(locale_lower, registry, i + 1)

map_locale_to_language_in(locale, registry) ==
  IF ~truthy(locale) THEN None ELSE map_locale_in(lower(locale), registry, 1)

\* the loop body at lines 412-429 with that registry order
keeps_in(segment, lang, registry) ==
  LET text == strip(segment.description) IN
  /\ text # <<>>
  /\ \/ /\ truthy(segment.locale)
        /\ map_locale_to_language_in(segment.locale, registry) = lang
     \/ detect_script(text, lang)

\* calculate_confidence with that registry order
calculate_confidence_in(total_segments, kept_segments, original_locale, lang, registry) ==
  IF total_segments = 0 THEN <<5, 10>>
  ELSE LET match_ratio == <<kept_segments, total_segments>>
           locale_match == map_locale_to_language_in(original_locale, registry) = lang
           conf == add(mul(match_ratio, <<8, 10>>),
                       IF locale_match THEN <<2, 10>> ELSE <<0, 10>>)
       IN max(<<5, 10>>, min(<<99, 100>>, conf))

\* reconstruct_with_lines when `for i in filtered_indices` yields `order`
reconstruct_iterating(segs, order) ==
  IF segs = <<>> \/ order = <<>> THEN <<>>
  ELSE join("\n", group_lines(segs, sort(order, segs), <<>>, <<>>, Nothing))

\* the results one run of filter_target_language_segments(anns, lang) can have
filter_runs(anns, lang) ==
  IF anns = <<>> THEN {[text |-> <<>>, confidence |-> <<5, 10>>]}
  ELSE IF Len(anns) = 1
    THEN {[text |-> strip(anns[1].description), confidence |-> <<5, 10>>]}
  ELSE LET segs == Tail(anns) IN
       UNION {LET indices == {i \in DOMAIN segs : keeps_in(segs[i], lang, registry)} IN
              {[text |-> reconstruct_iterating(segs, order),
                confidence |-> calculate_confidence_in(Len(segs), Cardinality(indices),
                                                       or(anns[1].locale, ""), lang,
                                                       registry)] :
                 order \in Orders(indices)} :
                registry \in RegistryOrders}

run_filter ==
  /\ filtered = Nothing
  /\ \E r \in filter_runs(texts, target_lang) : filtered' = Some(r)
  /\ UNCHANGED <<tts_vars, pipeline, data, response, spawned, texts, target_lang, ocr_result,
                 segments, filtered_indices, reconstructed, filtered_again>>

run_filter_again ==
  /\ filtered_again = Nothing
  /\ \E r \in filter_runs(texts, target_lang) : filtered_again' = Some(r)
  /\ UNCHANGED <<tts_vars, pipeline, data, response, spawned, texts, target_lang, filtered,
                 ocr_result, segments, filtered_indices, reconstructed>>

RerunInit == FilterInit

RerunNext == run_filter \/ run_filter_again

RerunSpec == RerunInit /\ [][RerunNext]_vars

\* C21: two runs of the filter on the same annotations and target language
\* return the same text and the same confidence, whatever the order in which
\* each run iterates the kept-index set and the registry.
C21_SameResult ==
  (filtered # Nothing /\ filtered_again # Nothing) => filtered = filtered_again


\* the characters of a text that are not whitespace, and those of them whose
\* code point lies in the script range of the profile of lang
Inked(text) == {i \in DOMAIN text : ~isspace(text[i])}
InScript(text, lang) ==
  {i \in Inked(text) :
     \E config \in get_language_config(lang) :
       config.script_range[1] <= ord(text[i]) /\ ord(text[i]) <= config.script_range[2]}

\* the rule of the claim for one segment
ShouldKeep(segment, lang) ==
  /\ strip(segment.description) # <<>>
  /\ \/ segment.locale # "" /\ map_locale_to_language(segment.locale) = lang
     \/ 2 * Cardinality(InScript(strip(segment.description), lang))
          > Cardinality(Inked(strip(segment.description)))

\* C22: the filter keeps a segment if and only if its trimmed text is not
\* empty and either its locale hint maps to the target language or more than
\* half of its non-whitespace characters lie in the target script range.
C22_KeepRule ==
  (filtered # Nothing /\ Len(texts) >= 2) =>
    \A i \in DOMAIN Tail(texts) :
      i \in filter_segments(Tail(texts), target_lang)
        <=> ShouldKeep(Tail(texts)[i], target_lang)


(***************************************************************************)
(* Voice selection in generate_tts (lines 617-641).  A voice has a name    *)
(* and language codes; names and codes are atoms, with the substring test  *)
(* given on those of the model.                                            *)
(***************************************************************************)
MaxVoices == 3

\* `sub in s` on the names and codes of the model
in_str(sub, s) ==
  \/ sub = s
  \/ <<sub, s>> \in {<<"Wavenet", "ru-RU-Wavenet-B">>, <<"Wavenet", "en-US-Wavenet-A">>,
                     <<"Neural", "ru-RU-Neural2-C">>}

\* str.strip() on the values of the voice variable
strip_name(s) == IF s = " " THEN "" ELSE s

Voice(n, codes) == [name |-> n, language_codes |-> codes]

\* the voices the backend can list
Voices ==
  {Voice("ru-RU-Standard-A", <<"ru-RU">>),
   Voice("ru-RU-Wavenet-B", <<"ru-RU">>),
   Voice("ru-RU-Neural2-C", <<"en-US", "ru-RU">>),
   Voice("en-US-Wavenet-A", <<"en-US">>)}

\* os.environ.get(config.tts_voice_env_var, ""): unset, blank, a listed
\* Russian voice, a listed voice of another locale
VoiceEnvValues == {"", " ", "ru-RU-Standard-A", "en-US-Wavenet-A"}

\* [v for v in voices if any(lang_code in lc for lc in v.language_codes)]
is_candidate(v, lang_code) ==
  \E k \in DOMAIN v.language_codes : in_str(lang_code, v.language_codes[k])

RECURSIVE select(_, _)
select(vs, lang_code) ==
  IF vs = <<>> THEN <<>>
  ELSE IF is_candidate(Head(vs), lang_code)
    THEN <<Head(vs)>> \o select(Tail(vs), lang_code)
    ELSE select(Tail(vs), lang_code)

is_premium(v) == in_str("Wavenet", v.name) \/ in_str("Neural", v.name)

\* next(v for v in vs if test(v)), as an optional voice
RECURSIVE first_premium(_)
first_premium(vs) ==
  IF vs = <<>> THEN Nothing
  ELSE IF is_premium(Head(vs)) THEN Some(Head(vs)) ELSE first_premium(Tail(vs))

RECURSIVE first_named(_, _)
first_named(vs, n) ==
  IF vs = <<>> THEN Nothing
  ELSE IF Head(vs).name = n THEN Some(Head(vs)) ELSE first_named(Tail(vs), n)

\* VoiceSelectionParams(language_code=..., name=...); no name: {}
VoiceSelectionParams(code, n) == [language_code |-> code, name |-> n]

named(v) == VoiceSelectionParams(v.language_codes[1], Some(v.name))

\* mutant: a configured override is sent whether or not it is a candidate
pick_voice_override_unchecked(override_name, candidates, lang_code) ==
  IF truthy(override_name) THEN VoiceSelectionParams(lang_code, Some(override_name))
  ELSE IF first_premium(candidates) # Nothing THEN named(the(first_premium(candidates)))
  ELSE IF candidates # <<>> THEN named(candidates[1])
  ELSE VoiceSelectionParams(lang_code, Nothing)

pick_voice(override_name, candidates, lang_code) ==
  IF truthy(override_name) /\ first_named(candidates, override_name) # Nothing
    THEN named(the(first_named(candidates, override_name)))
  ELSE LET premium == first_premium(candidates)
           chosen == IF premium # Nothing THEN premium
                     ELSE IF candidates # <<>> THEN Some(candidates[1]) ELSE Nothing
       IN IF chosen # Nothing THEN named(the(chosen))
          ELSE VoiceSelectionParams(lang_code, Nothing)

\* lines 617-641 of generate_tts for a language of the registry
select_voice ==
  /\ tts_language # None
  /\ voice = Nothing
  /\ LET config == the(get_language_config(tts_language))
         lang_code == config.tts_code
         override_name == or(strip_name(voice_env), None)
     IN voice' = Some(pick_voice(override_name, select(voices, lang_code), lang_code))
  /\ UNCHANGED <<pipeline, data, response, spawned, texts, target_lang, filtered,
                 ocr_result, segments, filtered_indices, reconstructed, filtered_again,
                 tts_language, voice_env, voices>>

VoiceInit ==
  /\ NoJob
  /\ texts = <<>>
  /\ target_lang = None
  /\ filtered = Nothing
  /\ ocr_result = Nothing
  /\ segments = <<>>
  /\ filtered_indices = {}
  /\ reconstructed = Nothing
  /\ filtered_again = Nothing
  /\ tts_language \in {"ru", "es"}
  /\ voice_env \in VoiceEnvValues
  /\ voices \in SeqsUpTo(Voices, MaxVoices)
  /\ voice = Nothing

VoiceNext == select_voice

VoiceSpec == VoiceInit /\ [][VoiceNext]_vars


\* the synthesis locale of the profile, the configured override ("" when
\* none), the positions of the candidate voices and of the higher-fidelity ones
TtsCode == LANGUAGE_REGISTRY[tts_language].tts_code
Override == strip_name(voice_env)
Candidates ==
  {k \in DOMAIN voices :
     \E code \in Range(voices[k].language_codes) : in_str(TtsCode, code)}
Premium ==
  {k \in Candidates : in_str("Wavenet", voices[k].name) \/ in_str("Neural", voices[k].name)}
First(S) == CHOOSE k \in S : \A j \in S : k <= j

\* C23: the voice named in the request is the override when it is configured
\* and names a candidate; otherwise the first higher-fidelity candidate;
\* otherwise the first candidate; otherwise no voice is named and the request
\* carries the locale only.  A name that is sent is always a candidate's.
C23_VoicePriority ==
  voice # Nothing =>
    /\ IF Override # "" /\ \E k \in Candidates : voices[k].name = Override
         THEN the(voice).name = {Override}
       ELSE IF Premium # {} THEN the(voice).name = {voices[First(Premium)].name}
       ELSE IF Candidates # {} THEN the(voice).name = {voices[First(Candidates)].name}
       ELSE the(voice).name = {} /\ the(voice).language_code = TtsCode
    /\ \A n \in the(voice).name : \E k \in Candidates : voices[k].name = n

C23_Witness ==
  /\ voice # Nothing
  /\ Override # ""
  /\ \E k \in DOMAIN voices : voices[k].name = Override
  /\ \A k \in Candidates : voices[k].name # Override
  /\ Premium # {}
  /\ First(Premium) # First(Candidates)
  /\ the(voice).name = {voices[First(Premium)].name}


\* the language an image job resolves to: the hint, else what OCR detected,
\* else ru
ResolvedImageLanguage ==
  IF job.language # None THEN job.language
  ELSE IF the(ocr_result).language # None THEN the(ocr_result).language
  ELSE "ru"

\* C24: when OCR has returned for an image job the language of the job is the
\* caller's hint if given, otherwise the language OCR detected, otherwise ru
\* (ru only when both are absent); that language is not changed afterwards, so
\* it is the one breakdown and synthesis are called with, and it is the one
\* of the success envelope.
C24_ImageLanguageOrder ==
  /\ [](/\ (job.source_type = "image" /\ pc = "CheckText") =>
             /\ ocr_result # Nothing
             /\ detected_language = ResolvedImageLanguage
             /\ detected_language = "ru" =>
                  \/ job.language = "ru"
                  \/ job.language = None /\ the(ocr_result).language \in {None, "ru"}
        /\ \A i \in SuccessPosts :
             posts[i].json.result.detected_language = detected_language)
  /\ [][("extract" \in returned) => detected_language' = detected_language]_vars

C24_Witness ==
  /\ pc = "CheckText"
  /\ job.source_type = "image"
  /\ job.language = None
  /\ ocr_result # Nothing
  /\ the(ocr_result).language = "zh"
  /\ detected_language = "zh"


\* text.split on single spaces and line breaks; the empty text has no piece
RECURSIVE SplitFrom(_, _, _)
SplitFrom(text, k, piece) ==
  IF k > Len(text) THEN <<piece>>
  ELSE IF text[k] \in {" ", "\n"}
    THEN <<piece>> \o SplitFrom(text, k + 1, <<>>)
    ELSE SplitFrom(text, k + 1, Append(piece, text[k]))
Split(text) == IF text = <<>> THEN <<>> ELSE SplitFrom(text, 1, <<>>)

\* the descriptions of the segments at the indices `order`
Descriptions(order) == [k \in DOMAIN order |-> segments[order[k]].description]

\* C25 as stated: splitting the output on line breaks and single spaces gives
\* the texts of the kept segments, each once, in some order.
C25_SplitIsPermutation ==
  reconstructed # Nothing =>
    \E order \in Orders(filtered_indices) :
      Split(the(reconstructed)) = Descriptions(order)

\* text is the parts in this order with one space or one line break between
\* consecutive parts
RECURSIVE Glued(_, _)
Glued(text, parts) ==
  IF Len(parts) = 0 THEN text = <<>>
  ELSE /\ Len(text) >= Len(parts[1])
       /\ SubSeq(text, 1, Len(parts[1])) = parts[1]
       /\ IF Len(parts) = 1 THEN Len(text) = Len(parts[1])
          ELSE /\ Len(text) > Len(parts[1])
               /\ text[Len(parts[1]) + 1] \in {" ", "\n"}
               /\ Glued(SubSeq(text, Len(parts[1]) + 2, Len(text)), Tail(parts))

HasBlank(text) == \E k \in DOMAIN text : text[k] \in {" ", "\n"}

\* C25 as amended: the output is the texts of the kept segments, each exactly
\* once and in some order, with one space or one line break between
\* neighbours, and nothing of a discarded segment; when no kept text contains
\* a space or a line break, splitting the output on them gives a permutation
\* of the kept texts.
C25_KeptTextsGlued ==
  reconstructed # Nothing =>
    \E order \in Orders(filtered_indices) :
      /\ Glued(the(reconstructed), Descriptions(order))
      /\ (\A i \in filtered_indices : ~HasBlank(segments[i].description)) =>
           Split(the(reconstructed)) = Descriptions(order)

C25_Witness ==
  /\ reconstructed # Nothing
  /\ Cardinality(filtered_indices) = 2
  /\ Len(segments) = 3
  /\ \E i \in filtered_indices : HasBlank(segments[i].description)
  /\ \E k \in DOMAIN the(reconstructed) : the(reconstructed)[k] = "\n"

====
